---------------------------- MODULE Spec2Model ----------------------------
(***************************************************************************)
(* Model of utils/dataset.py: the batch collator collate_fn with its       *)
(* conversation label aligner, the HybridDataset sampler, and the          *)
(* ValDataset / TumorDataset / ValTumorDataset sample builders.            *)
(*                                                                         *)
(* Text is a sequence of symbols.  The separators and the image            *)
(* placeholder are single symbols, ordinary words are "q" (instruction)    *)
(* and "a" (response).  Token sequences are sequences of integers.         *)
(***************************************************************************)
EXTENDS Integers, Sequences, FiniteSets, TLC

VARIABLES
    batch,          \* collate_fn: the list of samples handed to it
    tokenizer,      \* collate_fn: [pad_token_id, model_max_length]
    conv_type,      \* collate_fn: "llava_v1" or another template name
    use_mm_start_end, \* collate_fn: wrap the image placeholder
    out,            \* collate_fn: what the call produced ("none" before it)
    again,          \* collate_fn: the same batch has been collated a second time
    fs,             \* the walked image directory: one mask array per slice
    ds,             \* the dataset object under test
    sample,         \* what the last __getitem__ returned (<<>> before it)
    raised,         \* the exception the last dataset call raised ("" if none)
    hres            \* HybridDataset.__getitem__: the draw and what it forwarded to

vars == <<batch, tokenizer, conv_type, use_mm_start_end, out, again, fs, ds,
          sample, raised, hres>>

collateVars == <<batch, tokenizer, conv_type, use_mm_start_end, out, again>>
dataVars == <<fs, ds, sample, raised, hres>>

-----------------------------------------------------------------------------
(* Bounds of the model *)

MaxRounds == 2
MaxSamples == 2
MaxConvs == 2
MaxModelLen == 9
\* a model_max_length no row of the model reaches
LongModelLen == 32
MaxNames == 2
MaxWeight == 2
MaxIdx == 1
MaxSlices == 2
MaskPixels == 2
MaxRefs == 2

-----------------------------------------------------------------------------
(* Program constants *)

IGNORE_INDEX == -100
IMAGE_TOKEN_INDEX == -200
DEFAULT_IMAGE_TOKEN == "<image>"
DEFAULT_IM_START_TOKEN == "<im_start>"
DEFAULT_IM_END_TOKEN == "<im_end>"
\* conv.sep + conv.roles[1] + ": " of the llava_v1 template
SepV1 == " ASSISTANT: "
SepInst == "[/INST] "
\* conv.sep2 of the template
sep2 == "</s>"
\* the number of fields collate_fn destructures from every sample
SampleFields == 11
\* num_classes of the tumor datasets: the mask values are 0 (background) and
\* the classes 1..num_classes
num_classes == 3

Words == {"q", "a"}

-----------------------------------------------------------------------------
(* Sequence helpers: Python's str.split, str.replace, slicing *)

Max(a, b) == IF a >= b THEN a ELSE b
Min(a, b) == IF a <= b THEN a ELSE b

Contains(s, x) == \E i \in 1..Len(s) : s[i] = x

FirstIndex(s, x) == CHOOSE i \in 1..Len(s) : s[i] = x /\ \A j \in 1..(i-1) : s[j] # x

RECURSIVE Split(_, _)
Split(s, d) ==
    IF ~Contains(s, d) THEN <<s>>
    ELSE LET k == FirstIndex(s, d)
         IN <<SubSeq(s, 1, k-1)>> \o Split(SubSeq(s, k+1, Len(s)), d)

RECURSIVE Replace(_, _, _)
Replace(s, x, rep) ==
    IF s = <<>> THEN <<>>
    ELSE (IF Head(s) = x THEN rep ELSE <<Head(s)>>) \o Replace(Tail(s), x, rep)

RECURSIVE Flatten(_)
Flatten(ss) == IF ss = <<>> THEN <<>> ELSE Head(ss) \o Flatten(Tail(ss))

\* t[lo:hi] = v with Python's 0-based, end-exclusive, clipped slice
SliceAssign(t, lo, hi, v) ==
    [j \in 1..Len(t) |-> IF lo <= j-1 /\ j-1 < hi THEN v ELSE t[j]]

\* t[:n]
Prefix(t, n) == SubSeq(t, 1, Min(n, Len(t)))

-----------------------------------------------------------------------------
(* The tokenizer and tokenizer_image_token *)

BosTokenId == 1

TokenId(sym) ==
    CASE sym = "q" -> 10
      [] sym = "a" -> 11
      [] sym = SepV1 -> 12
      [] sym = SepInst -> 13
      [] sym = sep2 -> 2
      [] sym = DEFAULT_IM_START_TOKEN -> 20
      [] sym = DEFAULT_IM_END_TOKEN -> 21
      [] OTHER -> 3

\* A role separator ends in a space: followed by a word the space joins the
\* word's token, otherwise it is a token of its own (hence the "- 2" of the
\* aligner: the BOS token and this one).
SymbolTokens(sym, next) ==
    IF sym \in {SepV1, SepInst} /\ next \notin Words
    THEN <<TokenId(sym), 9>>
    ELSE IF sym = DEFAULT_IMAGE_TOKEN THEN <<30, 31, 32>>
    ELSE <<TokenId(sym)>>

RECURSIVE Pieces(_)
Pieces(text) ==
    IF text = <<>> THEN <<>>
    ELSE SymbolTokens(Head(text), IF Len(text) > 1 THEN text[2] ELSE "")
         \o Pieces(Tail(text))

\* tokenizer(text).input_ids
Tokenize(text) == <<BosTokenId>> \o Pieces(text)

RECURSIVE JoinChunks(_)
JoinChunks(chunks) ==
    IF Len(chunks) = 1 THEN Tail(Tokenize(chunks[1]))
    ELSE Tail(Tokenize(chunks[1])) \o <<IMAGE_TOKEN_INDEX>> \o JoinChunks(Tail(chunks))

\* tokenizer_image_token(prompt, tokenizer)
tokenizer_image_token(prompt) ==
    <<BosTokenId>> \o JoinChunks(Split(prompt, DEFAULT_IMAGE_TOKEN))

-----------------------------------------------------------------------------
(* The conversation label aligner: the loop body of collate_fn, lines 114-144 *)

\* int(target.ne(tokenizer.pad_token_id).sum())
CountNonPad(row, pad) == Cardinality({j \in 1..Len(row) : row[j] # pad})

\* sep of the template in use
RoleSep(ctype) == IF ctype = "llava_v1" THEN SepV1 ELSE SepInst

\* len(tokenizer_image_token(text, tokenizer)) when the conversation holds the
\* image placeholder, len(tokenizer(text).input_ids) otherwise
TokenLen(text, conversation) ==
    IF Contains(conversation, DEFAULT_IMAGE_TOKEN)
    THEN Len(tokenizer_image_token(text))
    ELSE Len(Tokenize(text))

\* the cursor after one round
AdvanceCursor(cur_len, round_len) == cur_len + round_len

\* mutant: the instruction mask stops one token early
MaskInstructionShort(target, cur_len, instruction_len) ==
    SliceAssign(target, cur_len, cur_len + instruction_len - 1, IGNORE_INDEX)

\* target[cur_len : cur_len + instruction_len] = IGNORE_INDEX
MaskInstruction(target, cur_len, instruction_len) ==
    SliceAssign(target, cur_len, cur_len + instruction_len, IGNORE_INDEX)

\* for i, rou in enumerate(rounds): ... ; raised is the assertion of line 128
RECURSIVE RoundLoop(_, _, _, _, _, _)
RoundLoop(rounds, i, cur_len, target, conversation, sep) ==
    IF i > Len(rounds) \/ rounds[i] = <<>>
    THEN [raised |-> FALSE, cur_len |-> cur_len, target |-> target, processed |-> i - 1]
    ELSE LET rou == rounds[i]
             parts == Split(rou, sep)
         IN IF Len(parts) # 2
            THEN [raised |-> TRUE, cur_len |-> cur_len, target |-> target,
                  processed |-> i - 1]
            ELSE LET part0 == parts[1] \o <<sep>>
                     round_len == TokenLen(rou, conversation)
                     instruction_len == TokenLen(part0, conversation) - 2
                 IN RoundLoop(rounds, i + 1, AdvanceCursor(cur_len, round_len),
                              MaskInstruction(target, cur_len, instruction_len),
                              conversation, sep)

\* if cur_len < tokenizer.model_max_length: assert cur_len == total_len
CursorCheckFails(cur_len, total_len, model_max_length) ==
    cur_len < model_max_length /\ cur_len # total_len

\* target[cur_len:] = IGNORE_INDEX
MaskTail(target, cur_len) == SliceAssign(target, cur_len, Len(target), IGNORE_INDEX)

\* mutant: a round that does not split in two ends the loop without raising
AlignRowUnchecked(conversation, row, tok, sep) ==
    LET total_len == CountNonPad(row, tok.pad_token_id)
        rounds == Split(conversation, sep2)
        loop == RoundLoop(rounds, 1, 1, SliceAssign(row, 0, 1, IGNORE_INDEX),
                          conversation, sep)
    IN [raised |-> CursorCheckFails(loop.cur_len, total_len, tok.model_max_length),
        target |-> MaskTail(loop.target, loop.cur_len),
        cur_len |-> loop.cur_len,
        total_len |-> total_len]

\* one iteration of "for conversation, target in zip(conversation_list, targets)"
AlignRow(conversation, row, tok, sep) ==
    LET total_len == CountNonPad(row, tok.pad_token_id)
        rounds == Split(conversation, sep2)
        loop == RoundLoop(rounds, 1, 1, SliceAssign(row, 0, 1, IGNORE_INDEX),
                          conversation, sep)
    IN [raised |-> loop.raised
                   \/ CursorCheckFails(loop.cur_len, total_len, tok.model_max_length),
        target |-> MaskTail(loop.target, loop.cur_len),
        cur_len |-> loop.cur_len,
        total_len |-> total_len]

-----------------------------------------------------------------------------
(* collate_fn *)

\* what a call that raised leaves behind
Raised(exception) ==
    [status |-> exception, input_ids |-> <<>>, labels |-> <<>>,
     attention_masks |-> <<>>, offset |-> <<>>, conversation_list |-> <<>>,
     masks_list |-> <<>>, inference |-> FALSE, text_only |-> <<>>,
     cur_lens |-> <<>>, total_lens |-> <<>>]

\* mutant: the per-sample count is appended instead of the running total
RECURSIVE OffsetListPerSample(_, _)
OffsetListPerSample(b, cnt) ==
    IF b = <<>> THEN <<>>
    ELSE <<Len(Head(b)[4])>> \o OffsetListPerSample(Tail(b), cnt)

\* offset_list = [0]; cnt += len(conversations); offset_list.append(cnt)
RECURSIVE OffsetList(_, _)
OffsetList(b, cnt) ==
    IF b = <<>> THEN <<>>
    ELSE <<cnt + Len(Head(b)[4])>> \o OffsetList(Tail(b), cnt + Len(Head(b)[4]))

\* conversation_list[i].replace(DEFAULT_IMAGE_TOKEN, start + image + end)
ReplaceImageToken(conversation) ==
    Replace(conversation, DEFAULT_IMAGE_TOKEN,
            <<DEFAULT_IM_START_TOKEN, DEFAULT_IMAGE_TOKEN, DEFAULT_IM_END_TOKEN>>)

RECURSIVE MaxLen(_)
MaxLen(rows) == IF rows = <<>> THEN 0 ELSE Max(Len(Head(rows)), MaxLen(Tail(rows)))

\* torch.nn.utils.rnn.pad_sequence(..., batch_first=True, padding_value=pad)
PadSequence(rows, pad) ==
    LET width == MaxLen(rows)
    IN [i \in 1..Len(rows) |->
           rows[i] \o [j \in 1..(width - Len(rows[i])) |-> pad]]

\* mutant: the mask marks the first pad slot of a row as attended
AttentionMasksLate(input_ids, pad) ==
    [i \in 1..Len(input_ids) |->
        [j \in 1..Len(input_ids[i]) |->
            input_ids[i][j] # pad \/ (j > 1 /\ input_ids[i][j - 1] # pad)]]

\* input_ids.ne(tokenizer.pad_token_id)
AttentionMasks(input_ids, pad) ==
    [i \in 1..Len(input_ids) |->
        [j \in 1..Len(input_ids[i]) |-> input_ids[i][j] # pad]]

\* mutant: the inference flag is not consulted
ShouldTruncateAlways(inference0, width, truncate_len) == width > truncate_len

\* inferences[0] == False and input_ids.shape[1] > truncate_len
ShouldTruncate(inference0, width, truncate_len) ==
    inference0 = FALSE /\ width > truncate_len

\* tensor[:, :truncate_len]
TruncateColumns(tensor, truncate_len) ==
    [i \in 1..Len(tensor) |-> Prefix(tensor[i], truncate_len)]

collate_fn(b, tok, ctype, mm) ==
    IF \E i \in 1..Len(b) : Len(b[i]) # SampleFields THEN Raised("ValueError")
    ELSE
    LET flat == Flatten([i \in 1..Len(b) |-> b[i][4]])
        offset_list == <<0>> \o OffsetList(b, 0)
        conversation_list ==
            IF mm THEN [i \in 1..Len(flat) |-> ReplaceImageToken(flat[i])] ELSE flat
        ids == [i \in 1..Len(flat) |-> tokenizer_image_token(conversation_list[i])]
    IN IF ids = <<>> THEN Raised("RuntimeError")
       ELSE
       LET input_ids == PadSequence(ids, tok.pad_token_id)
           attention_masks == AttentionMasks(input_ids, tok.pad_token_id)
           aligned == [i \in 1..Len(input_ids) |->
                          AlignRow(conversation_list[i], input_ids[i], tok,
                                   RoleSep(ctype))]
           targets == [i \in 1..Len(input_ids) |-> aligned[i].target]
           cut == ShouldTruncate(b[1][10], MaxLen(input_ids), tok.model_max_length)
           Cut(tensor) == IF cut THEN TruncateColumns(tensor, tok.model_max_length)
                          ELSE tensor
       IN IF \E i \in 1..Len(aligned) : aligned[i].raised
          THEN Raised("AssertionError")
          ELSE [status |-> "ok",
                input_ids |-> Cut(input_ids),
                labels |-> Cut(targets),
                attention_masks |-> Cut(attention_masks),
                offset |-> offset_list,
                conversation_list |-> conversation_list,
                masks_list |-> [i \in 1..Len(b) |-> b[i][5]],
                inference |-> b[1][10],
                text_only |-> [i \in 1..Len(b) |-> b[i][11]],
                cur_lens |-> [i \in 1..Len(aligned) |-> aligned[i].cur_len],
                total_lens |-> [i \in 1..Len(aligned) |-> aligned[i].total_len]]

-----------------------------------------------------------------------------
(* Inputs of collate_fn *)

\* a sample as the 11-field tuple collate_fn destructures; one mask per
\* conversation
MkSample(conversations, inference) ==
    <<"image_path", "images", "images_clip", conversations,
      [i \in 1..Len(conversations) |-> "mask"], "label", "resize",
      "None", "None", inference, FALSE>>

Response(k) == [i \in 1..k |-> "a"]

\* one rendered round, without its closing sep2
Round(image, k, sep) ==
    (IF image THEN <<DEFAULT_IMAGE_TOKEN>> ELSE <<>>) \o <<"q", sep>> \o Response(k)

\* r well-formed rounds, the j-th with a response of j words, each closed by sep2
RECURSIVE Rounds(_, _, _, _)
Rounds(j, r, image, sep) ==
    IF j > r THEN <<>>
    ELSE Round(image /\ j = 1, j, sep) \o <<sep2>> \o Rounds(j + 1, r, image, sep)

Shapes == {"ok", "noend", "gap", "nosep", "twosep", "noresponse"}

\* a conversation of r rounds whose last part has the given shape
Conversation(r, image, sep, shape) ==
    LET head == Rounds(1, r - 1, image, sep)
        last == Round(image /\ r = 1, r, sep)
    IN CASE shape = "ok" -> head \o last \o <<sep2>>
         [] shape = "noend" -> head \o last
         [] shape = "gap" -> head \o last \o <<sep2, sep2, "q", sep2>>
         [] shape = "nosep" -> head \o <<"q", "a", sep2>>
         [] shape = "twosep" -> head \o last \o <<sep, "a", sep2>>
         [] shape = "noresponse" -> head \o <<"q", sep, sep2>>

AlignConversations ==
    {Conversation(r, image, sep, shape) :
        r \in 1..MaxRounds, image \in BOOLEAN, sep \in {SepV1, SepInst},
        shape \in Shapes}

\* the well-formed conversations the batches are made of
BatchConversations ==
    {Conversation(1, FALSE, SepV1, "ok"), Conversation(2, TRUE, SepV1, "ok")}

SeqsUpTo(S, n) == UNION {[1..k -> S] : k \in 0..n}

\* the conversation lists of the alignment inputs: one conversation under
\* test, alone or beside a well-formed one
AlignLists(c) ==
    IF Contains(c, DEFAULT_IMAGE_TOKEN) THEN {<<c>>}
    ELSE {<<c>>, <<c, Conversation(2, FALSE, c[2], "ok")>>,
          <<Conversation(1, FALSE, SepV1, "ok"), c>>}

\* a training batch of one sample holding an alignment input
IsAlignBatch(b) ==
    \E c \in AlignConversations : \E convs \in AlignLists(c) :
        b = <<MkSample(convs, FALSE)>>

\* 1..MaxSamples samples of 0..MaxConvs well-formed conversations each; the
\* first sample's inference flag and the flag of the others are free
IsBatch(b) ==
    \E n \in 1..MaxSamples :
        \E lists \in [1..n -> SeqsUpTo(BatchConversations, MaxConvs)],
           first \in BOOLEAN, rest \in BOOLEAN :
            b = [i \in 1..n |-> MkSample(lists[i], IF i = 1 THEN first ELSE rest)]

ModelMaxLengths == (2..MaxModelLen) \cup {LongModelLen}

Tokenizers(lengths) == [pad_token_id : {0}, model_max_length : lengths]

NoDataset == [kind |-> "none"]
NoDraw == [status |-> "none"]

-----------------------------------------------------------------------------
(* The collate specification: inputs drawn at Init, one call of collate_fn *)

NotCalled == Raised("none")

InitCollate ==
    /\ \/ /\ IsAlignBatch(batch)
          /\ conv_type \in {"llava_v1", "llama_2"}
          /\ tokenizer \in Tokenizers(ModelMaxLengths)
          /\ use_mm_start_end \in BOOLEAN
       \/ /\ IsBatch(batch)
          /\ conv_type = "llava_v1"
          /\ tokenizer \in Tokenizers({MaxModelLen})
          /\ use_mm_start_end = TRUE
    /\ out = NotCalled /\ again = FALSE
    /\ fs = <<>> /\ ds = NoDataset /\ sample = <<>> /\ raised = ""
    /\ hres = NoDraw

\* mutant: conversation_list aliases the samples' lists, so the rewrite of
\* the image placeholder reaches the input
BatchAfterCollateAliased(b, mm) ==
    IF mm /\ \A i \in 1..Len(b) : Len(b[i]) = SampleFields
    THEN [i \in 1..Len(b) |->
             [b[i] EXCEPT ![4] = [k \in 1..Len(b[i][4]) |->
                                    ReplaceImageToken(b[i][4][k])]]]
    ELSE b

\* the batch after the call: extend() copies the strings of each sample into
\* conversation_list and the rewrite assigns to conversation_list[i], so no
\* sample's list is written
BatchAfterCollate(b, mm) == b

\* a call of collate_fn; the caller may collate the same batch once more
Collate ==
    /\ ~again
    /\ out' = collate_fn(batch, tokenizer, conv_type, use_mm_start_end)
    /\ batch' = BatchAfterCollate(batch, use_mm_start_end)
    /\ again' = (out.status # "none")
    /\ UNCHANGED <<tokenizer, conv_type, use_mm_start_end>>
    /\ UNCHANGED dataVars

NextCollate == Collate

SpecCollate == InitCollate /\ [][NextCollate]_vars

-----------------------------------------------------------------------------
(* Properties of collate_fn *)

Returned == out.status = "ok"

RowIndexes == 1..Len(out.labels)

\* the spans the rounds before the first empty round occupy, with the cursor
\* starting at `cursor` and advancing by each round's token length
RECURSIVE Spans(_, _, _, _, _)
Spans(rounds, i, cursor, conversation, sep) ==
    IF i > Len(rounds) \/ rounds[i] = <<>>
    THEN [instruction |-> {}, response |-> {}, cursor |-> cursor]
    ELSE LET round_len == TokenLen(rounds[i], conversation)
             instruction_len ==
                 TokenLen(Split(rounds[i], sep)[1] \o <<sep>>, conversation) - 2
             rest == Spans(rounds, i + 1, cursor + round_len, conversation, sep)
         IN [instruction |-> (cursor..(cursor + instruction_len - 1))
                                 \cup rest.instruction,
             response |-> ((cursor + instruction_len)..(cursor + round_len - 1))
                              \cup rest.response,
             cursor |-> rest.cursor]

RowSpans(i) ==
    Spans(Split(out.conversation_list[i], sep2), 1, 1, out.conversation_list[i],
          RoleSep(conv_type))

\* C1: in a returned batch a labels position keeps its token id exactly when
\* it lies in the response span of a round before the first empty round;
\* position 0 and the instruction spans hold IGNORE_INDEX.
C1_LabelAlignment ==
    Returned =>
        \A i \in RowIndexes :
            LET spans == RowSpans(i)
                labels == out.labels[i]
                ids == out.input_ids[i]
            IN \A j \in 1..Len(labels) :
                  /\ labels[j] \in {IGNORE_INDEX, ids[j]}
                  /\ (labels[j] = ids[j]) <=> ((j - 1) \in spans.response)
                  /\ (j - 1 = 0 \/ (j - 1) \in spans.instruction)
                         => labels[j] = IGNORE_INDEX

\* a returned row with an empty round followed by more material, holding both
\* a masked instruction position and a kept response position
C1_Witness ==
    /\ Returned
    /\ \E i \in RowIndexes :
          LET rounds == Split(out.conversation_list[i], sep2)
          IN /\ \E k \in 2..(Len(rounds) - 1) : rounds[k] = <<>>
             /\ \E j \in 2..Len(out.labels[i]) : out.labels[i][j] = IGNORE_INDEX
             /\ \E j \in 2..Len(out.labels[i]) : out.labels[i][j] # IGNORE_INDEX

\* C2: a conversation of at most model_max_length non-pad tokens is returned
\* only with its final cursor equal to its non-pad token count.
C2_CursorInvariant ==
    Returned =>
        \A i \in 1..Len(out.cur_lens) :
            out.total_lens[i] <= tokenizer.model_max_length
                => out.cur_lens[i] = out.total_lens[i]

\* C3: in a returned batch every labels position at or beyond its row's count
\* of non-pad tokens is IGNORE_INDEX.
C3_PaddingIgnored ==
    Returned =>
        \A i \in RowIndexes :
            LET labels == out.labels[i]
                count == CountNonPad(out.input_ids[i], tokenizer.pad_token_id)
            IN \A j \in 1..Len(labels) :
                  (j - 1) >= count => labels[j] = IGNORE_INDEX

\* the tensors before the truncation step, from the returned conversation_list
FullInputIds ==
    PadSequence([i \in 1..Len(out.conversation_list) |->
                    tokenizer_image_token(out.conversation_list[i])],
                tokenizer.pad_token_id)

FullLabels(full) ==
    [i \in 1..Len(full) |->
        AlignRow(out.conversation_list[i], full[i], tokenizer,
                 RoleSep(conv_type)).target]

FirstColumns(tensor, n) ==
    [i \in 1..Len(tensor) |-> [j \in 1..n |-> tensor[i][j]]]

\* C4: a training batch (first inference flag false) wider than
\* model_max_length is cut to its first model_max_length columns; an inference
\* batch, or one not wider than model_max_length, is returned whole.
C4_Truncation ==
    Returned =>
        LET full == FullInputIds
            L == MaxLen(full)
            M == tokenizer.model_max_length
            W == IF batch[1][10] = FALSE /\ L > M THEN M ELSE L
        IN /\ out.input_ids = FirstColumns(full, W)
           /\ out.labels = FirstColumns(FullLabels(full), W)
           /\ out.attention_masks
                  = FirstColumns(AttentionMasks(full, tokenizer.pad_token_id), W)

\* a training batch that was cut, with a later sample flagged inference
C4_Witness ==
    /\ Returned
    /\ batch[1][10] = FALSE
    /\ Len(batch) > 1 /\ batch[2][10] = TRUE
    /\ MaxLen(FullInputIds) > tokenizer.model_max_length
    /\ MaxLen(out.input_ids) = tokenizer.model_max_length

NumConversations == Len(Flatten([k \in 1..Len(batch) |-> batch[k][4]]))

\* C5: input_ids, labels and attention_masks of a returned batch have one
\* shape, one row per flattened conversation, and the mask is true exactly
\* where input_ids differs from pad_token_id.
C5_ShapeAndMask ==
    Returned =>
        /\ Len(out.input_ids) = NumConversations
        /\ Len(out.labels) = NumConversations
        /\ Len(out.attention_masks) = NumConversations
        /\ \A i \in RowIndexes :
              LET ids == out.input_ids[i]
                  masks == out.attention_masks[i]
                  width == Len(out.input_ids[1])
              IN /\ Len(ids) = width
                 /\ Len(out.labels[i]) = width
                 /\ Len(masks) = width
                 /\ \A j \in 1..width :
                       masks[j] <=> (ids[j] # tokenizer.pad_token_id)

\* a truncated batch of several rows, one of them still padded
C5_Witness ==
    /\ Returned
    /\ Len(out.input_ids) > 2
    /\ MaxLen(out.input_ids) < MaxLen(FullInputIds)
    /\ \E i \in RowIndexes : \E j \in 1..Len(out.attention_masks[i]) :
          ~out.attention_masks[i][j]

\* C6: offset has one entry more than the batch has samples, starts at 0,
\* grows by each sample's conversation count, ends at the number of rows, and
\* slices conversation_list into each sample's conversations in order.
C6_Offsets ==
    Returned =>
        /\ Len(out.offset) = Len(batch) + 1
        /\ out.offset[1] = 0
        /\ out.offset[Len(batch) + 1] = Len(out.input_ids)
        /\ \A k \in 1..Len(batch) :
              /\ out.offset[k + 1] - out.offset[k] = Len(batch[k][4])
              /\ out.offset[k] <= out.offset[k + 1]
              /\ SubSeq(out.conversation_list, out.offset[k] + 1, out.offset[k + 1])
                     = [c \in 1..Len(batch[k][4]) |->
                           IF use_mm_start_end THEN ReplaceImageToken(batch[k][4][c])
                           ELSE batch[k][4][c]]

\* a returned batch of several samples with different conversation counts,
\* one of them with none, and the placeholder rewritten
C6_Witness ==
    /\ Returned
    /\ use_mm_start_end
    /\ Len(batch) > 1
    /\ \E k \in 1..Len(batch) : Len(batch[k][4]) = 0
    /\ \E k \in 1..Len(batch) : Len(batch[k][4]) > 1
    /\ \E i \in RowIndexes : Contains(out.conversation_list[i], DEFAULT_IM_START_TOKEN)

\* the prompts collate_fn tokenizes: the samples' conversations, flattened,
\* the image placeholder wrapped when use_mm_start_end is set
Prompts ==
    LET flat == Flatten([i \in 1..Len(batch) |-> batch[i][4]])
    IN IF use_mm_start_end THEN [i \in 1..Len(flat) |-> ReplaceImageToken(flat[i])]
       ELSE flat

\* the rounds of a prompt that precede its first empty round
LiveRounds(prompt) ==
    LET rounds == Split(prompt, sep2)
    IN {i \in 1..Len(rounds) : \A j \in 1..i : rounds[j] # <<>>}

\* a live round that does not split on the role separator into two parts
MalformedRounds(prompt) ==
    {i \in LiveRounds(prompt) :
        Len(Split(Split(prompt, sep2)[i], RoleSep(conv_type))) # 2}

\* the cursor of a prompt whose live rounds are well formed differs from its
\* token count below the model's maximum length
CursorOff(prompt) ==
    LET cursor == Spans(Split(prompt, sep2), 1, 1, prompt, RoleSep(conv_type)).cursor
    IN /\ cursor < tokenizer.model_max_length
       /\ cursor # Len(tokenizer_image_token(prompt))

\* collate_fn was called on a batch it could destructure and tokenize
ReachedAligner == out.status \in {"ok", "AssertionError"}

\* C14: a call that reaches the aligner raises AssertionError and returns no
\* batch when some prompt has a malformed round before its first empty round;
\* when it raises, some prompt has such a round or fails the cursor check, so
\* what follows the first empty round never raises.
C14_MalformedRoundFatal ==
    ReachedAligner =>
        /\ (\E r \in 1..Len(Prompts) : MalformedRounds(Prompts[r]) # {})
              => (out.status = "AssertionError" /\ out.labels = <<>>)
        /\ out.status = "AssertionError"
              => \E r \in 1..Len(Prompts) :
                    \/ MalformedRounds(Prompts[r]) # {}
                    \/ CursorOff(Prompts[r])

\* the call raised on a prompt whose second round is malformed, and beside a
\* prompt it accepted
C14_Witness ==
    /\ out.status = "AssertionError"
    /\ \E r \in 1..Len(Prompts) : 2 \in MalformedRounds(Prompts[r])
    /\ \E r \in 1..Len(Prompts) :
          MalformedRounds(Prompts[r]) = {} /\ ~CursorOff(Prompts[r])

\* a call that returned a batch although a prompt holds material that does
\* not split in two after its first empty round
C14_GapWitness ==
    /\ out.status = "ok"
    /\ \E r \in 1..Len(Prompts) :
          LET rounds == Split(Prompts[r], sep2)
          IN \E i \in 1..Len(rounds) :
                /\ i \notin LiveRounds(Prompts[r])
                /\ rounds[i] # <<>>
                /\ Len(Split(rounds[i], RoleSep(conv_type))) # 2

-----------------------------------------------------------------------------
(* HybridDataset *)

SourceNames == {"sem_seg", "refer_seg", "vqa", "reason_seg"}

\* the names a caller may put in the dataset string
DatasetNames == SourceNames \cup {"tumor"}

\* for dataset in self.datasets: if dataset == "sem_seg": ... elif ...
RECURSIVE RegisterSources(_)
RegisterSources(names) ==
    IF names = <<>> THEN <<>>
    ELSE (IF Head(names) \in SourceNames THEN <<Head(names)>> ELSE <<>>)
         \o RegisterSources(Tail(names))

RECURSIVE Sum(_)
Sum(ws) == IF ws = <<>> THEN 0 ELSE Head(ws) + Sum(Tail(ws))

\* HybridDataset.__init__: sample_rate is kept as the weights and their sum,
\* the probability of index i being sample_rate.weights[i] / sample_rate.sum
HybridInit(dataset, sample_rate) ==
    [kind |-> "HybridDataset",
     datasets |-> dataset,
     sample_rate |-> [weights |-> sample_rate, sum |-> Sum(sample_rate)],
     all_datasets |-> RegisterSources(dataset)]

\* np.random.choice(list(range(n)), p=p): the indexes it may return; none when
\* it raises ValueError (sizes differ, or p holds NaN because the sum is 0)
ChoiceRaises(n, p) == Len(p.weights) # n \/ p.sum = 0

ChoiceSupport(n, p) ==
    IF ChoiceRaises(n, p) THEN {} ELSE {i \in 0..(n - 1) : p.weights[i + 1] > 0}

\* data = self.all_datasets[ind]
SourceAt(all_datasets, ind) ==
    IF ind < Len(all_datasets)
    THEN [status |-> "ok", ind |-> ind, source |-> all_datasets[ind + 1],
          index |-> 0, inference |-> FALSE]
    ELSE [status |-> "IndexError", ind |-> ind, source |-> "", index |-> 0,
          inference |-> FALSE]

\* HybridDataset.__getitem__(idx)
HybridGetItem(idx) ==
    /\ ds.kind = "HybridDataset"
    /\ \/ /\ ChoiceRaises(Len(ds.datasets), ds.sample_rate)
          /\ hres' = [status |-> "ValueError", ind |-> -1, source |-> "",
                      index |-> 0, inference |-> FALSE]
       \/ \E ind \in ChoiceSupport(Len(ds.datasets), ds.sample_rate) :
             hres' = SourceAt(ds.all_datasets, ind)
    /\ UNCHANGED <<fs, ds, sample, raised>>
    /\ UNCHANGED collateVars

NonEmptySeqsUpTo(S, n) == UNION {[1..k -> S] : k \in 1..n}

InitHybrid ==
    /\ \E dataset \in NonEmptySeqsUpTo(DatasetNames, MaxNames),
          sample_rate \in NonEmptySeqsUpTo(0..MaxWeight, MaxNames) :
          ds = HybridInit(dataset, sample_rate)
    /\ hres = NoDraw
    /\ fs = <<>> /\ sample = <<>> /\ raised = ""
    /\ batch = <<>> /\ tokenizer = [pad_token_id |-> 0, model_max_length |-> LongModelLen]
    /\ conv_type = "llava_v1" /\ use_mm_start_end = TRUE /\ out = NotCalled
    /\ again = FALSE

NextHybrid == \E idx \in 0..MaxIdx : HybridGetItem(idx)

SpecHybrid == InitHybrid /\ [][NextHybrid]_vars

C9_WeightsFit ==
    Len(ds.sample_rate.weights) = Len(ds.datasets) /\ ds.sample_rate.sum > 0

\* C9: given a weight vector of K entries with a positive sum, every query
\* draws a source index in [0, K) that addresses a registered source, forwards
\* to it with index 0 and appends inference = False; source selection never
\* fails.
C9_SourceSelection ==
    (hres.status # "none" /\ C9_WeightsFit) =>
        /\ hres.status = "ok"
        /\ hres.ind \in 0..(Len(ds.datasets) - 1)
        /\ hres.ind < Len(ds.all_datasets)
        /\ hres.source = ds.all_datasets[hres.ind + 1]
        /\ hres.index = 0
        /\ hres.inference = FALSE

-----------------------------------------------------------------------------
(* TumorDataset and ValTumorDataset: construction *)

\* the mask arrays a slice may have on disk
MaskFiles == [1..MaskPixels -> 0..num_classes]

RECURSIVE SortedSeq(_)
SortedSeq(S) ==
    IF S = {} THEN <<>>
    ELSE LET m == CHOOSE x \in S : \A y \in S : x <= y
         IN <<m>> \o SortedSeq(S \ {m})

\* np.unique(mask)
Unique(mask) == SortedSeq({mask[p] : p \in 1..Len(mask)})

\* np.any(mask > 0)
HasValuesOverZero(mask) == \E p \in 1..Len(mask) : mask[p] > 0

IsNonZero(c) == c # 0

\* mutant: the background class is kept in the class list
ClassesPerSliceAll(mask) == Unique(mask)

\* classes_per_slice[classes_per_slice != 0].tolist()
ClassesPerSlice(mask) == SelectSeq(Unique(mask), IsNonZero)

\* for slice in self.all_slices: ... ; slices are named by their walk position
RECURSIVE FilterSlices(_, _)
FilterSlices(slices, masks) ==
    IF slices = <<>>
    THEN [slices_with_tumors |-> <<>>, clasess_available |-> <<>>]
    ELSE LET rest == FilterSlices(Tail(slices), masks)
             mask == masks[Head(slices)]
         IN IF HasValuesOverZero(mask)
            THEN [slices_with_tumors |-> <<Head(slices)>> \o rest.slices_with_tumors,
                  clasess_available |-> <<ClassesPerSlice(mask)>> \o rest.clasess_available]
            ELSE rest

\* os.walk of <mode>/image: the slices in walk order
Walk(masks) == [i \in 1..Len(masks) |-> i]

\* the body of TumorDataset.__init__ and ValTumorDataset.__init__ with the
\* filter enabled
TumorInit(kind, masks, just_use_pos_cases, merging_classes) ==
    LET filtered == FilterSlices(Walk(masks), masks)
    IN [kind |-> kind,
        all_slices |-> filtered.slices_with_tumors,
        clasess_available |-> filtered.clasess_available,
        just_use_pos_cases |-> just_use_pos_cases,
        merging_classes |-> merging_classes,
        num_classes |-> num_classes]

\* __init__ of either class: with just_using_tumor_imgs false the name
\* slices_with_tumors is read unassigned
Construct(kind, just_using_tumor_imgs, just_use_pos_cases, merging_classes) ==
    /\ ds.kind = "none" /\ raised = ""
    /\ IF just_using_tumor_imgs
       THEN /\ ds' = TumorInit(kind, fs, just_use_pos_cases, merging_classes)
            /\ raised' = raised
       ELSE /\ raised' = "NameError"
            /\ ds' = ds
    /\ UNCHANGED <<fs, sample, hres>>
    /\ UNCHANGED collateVars

\* TumorDataset(..., just_using_tumor_imgs=f), the other options at their
\* defaults
ConstructTumorDataset ==
    \E f \in BOOLEAN : Construct("TumorDataset", f, TRUE, TRUE)

\* ValTumorDataset(..., just_using_tumor_imgs=f), the other options at their
\* defaults
ConstructValTumorDataset ==
    \E f \in BOOLEAN : Construct("ValTumorDataset", f, TRUE, TRUE)

InitTumor ==
    /\ fs \in SeqsUpTo(MaskFiles, MaxSlices)
    /\ ds = NoDataset /\ sample = <<>> /\ raised = "" /\ hres = NoDraw
    /\ batch = <<>> /\ tokenizer = [pad_token_id |-> 0, model_max_length |-> LongModelLen]
    /\ conv_type = "llava_v1" /\ use_mm_start_end = TRUE /\ out = NotCalled
    /\ again = FALSE

NextTumor == ConstructTumorDataset \/ ConstructValTumorDataset

SpecTumor == InitTumor /\ [][NextTumor]_vars

TumorKinds == {"TumorDataset", "ValTumorDataset"}

HasTumor(slice) == HasValuesOverZero(fs[slice])

\* C10: after construction with the filter enabled, all_slices is the walked
\* slices whose mask has a value > 0, in walk order, and clasess_available is
\* index-aligned with it, each entry the distinct non-zero values of its
\* slice's mask: non-empty and without 0.
C10_EagerFilter ==
    ds.kind \in TumorKinds =>
        /\ ds.all_slices = SelectSeq(Walk(fs), HasTumor)
        /\ Len(ds.clasess_available) = Len(ds.all_slices)
        /\ \A k \in 1..Len(ds.all_slices) :
              LET classes == ds.clasess_available[k]
                  mask == fs[ds.all_slices[k]]
              IN /\ {classes[c] : c \in 1..Len(classes)}
                        = {mask[p] : p \in 1..Len(mask)} \ {0}
                 /\ Len(classes) > 0
                 /\ \A c \in 1..Len(classes) : classes[c] # 0
                 /\ \A c, d \in 1..Len(classes) : c # d => classes[c] # classes[d]

\* a constructed dataset that dropped a slice and kept one whose mask holds
\* background and a class
C10_Witness ==
    /\ ds.kind \in TumorKinds
    /\ Len(ds.all_slices) > 0
    /\ Len(ds.all_slices) < Len(fs)
    /\ \E k \in 1..Len(ds.all_slices) :
          \E p \in 1..MaskPixels : fs[ds.all_slices[k]][p] = 0

\* C16: no construction of TumorDataset or ValTumorDataset ends in an error;
\* the only construction of the model that raises is the one with
\* just_using_tumor_imgs = False, which the claim says completes and keeps
\* every walked slice.
C16_FilterDisabledConstruction == raised # "NameError"

-----------------------------------------------------------------------------
(* __getitem__ of TumorDataset, ValTumorDataset and ValDataset *)

\* conv.get_prompt() of the two-message conversation the datasets build: the
\* system prompt, the user message, the role separator, the answer, sep2
GetPrompt(question, answer) == <<"q">> \o question \o <<SepV1>> \o answer \o <<sep2>>

\* np.where(mask > 0, 1, 0)
WholeTumor(mask) == [p \in 1..Len(mask) |-> IF mask[p] > 0 THEN 1 ELSE 0]

\* np.where(mask == selected_class + 1, 1, 0)
ClassMask(mask, selected_class) ==
    [p \in 1..Len(mask) |-> IF mask[p] = selected_class + 1 THEN 1 ELSE 0]

\* the values selected_class may take: 1 with merging_classes, else a drawn
\* class of the slice (random.choice) or any class (np.random.randint)
SelectedClasses(d, index) ==
    IF d.merging_classes THEN {1}
    ELSE IF d.just_use_pos_cases
         THEN {d.clasess_available[index + 1][c] - 1 :
                   c \in 1..Len(d.clasess_available[index + 1])}
         ELSE 0..(d.num_classes - 1)

\* the tuple both tumor classes return: `copies` is 3 for TumorDataset
\* (conversations * 3) and 1 for ValTumorDataset (conversations)
TumorSample(d, index, selected_class, copies, inference) ==
    LET slice_path == d.all_slices[index + 1]
        mask == IF d.merging_classes THEN WholeTumor(fs[slice_path])
                ELSE ClassMask(fs[slice_path], selected_class)
        questions == <<<<DEFAULT_IMAGE_TOKEN, "q">>>>
        conversations == <<GetPrompt(questions[1], <<"a">>)>>
    IN <<slice_path, "image", "image_clip",
         [c \in 1..(copies * Len(conversations)) |-> conversations[1]],
         <<mask, mask, mask>>, "label", "resize", questions, "None", inference>>

TumorGetItem(idx) ==
    /\ ds.kind = "TumorDataset"
    /\ idx < Len(ds.all_slices)
    /\ \E selected_class \in SelectedClasses(ds, idx) :
          sample' = TumorSample(ds, idx, selected_class, 3, FALSE)
    /\ raised' = ""
    /\ UNCHANGED <<fs, ds, hres>>
    /\ UNCHANGED collateVars

ValTumorGetItem(idx) ==
    /\ ds.kind = "ValTumorDataset"
    /\ idx < Len(ds.all_slices)
    /\ \E selected_class \in SelectedClasses(ds, idx) :
          sample' = TumorSample(ds, idx, selected_class, 1, TRUE)
    /\ raised' = ""
    /\ UNCHANGED <<fs, ds, hres>>
    /\ UNCHANGED collateVars

\* sents and ann_ids of an image: one entry per sentence of every ref
RECURSIVE RefSentences(_)
RefSentences(refs) ==
    IF refs = <<>> THEN <<>>
    ELSE [k \in 1..Len(Head(refs).sentences) |->
             [sent |-> Head(refs).sentences[k], ann_id |-> Head(refs).ann_id]]
         \o RefSentences(Tail(refs))

\* np.sum(m, axis=2).astype(np.uint8) over the decoded binary maps
RECURSIVE SumMaps(_, _)
SumMaps(maps, p) ==
    IF maps = <<>> THEN 0 ELSE Head(maps)[p] + SumMaps(Tail(maps), p)

SumAxis2(maps) == [p \in 1..MaskPixels |-> SumMaps(maps, p) % 256]

\* ann["segmentation"][0] on an empty segmentation whose sentence is empty
\* raises IndexError
AnnotationFails(ann, sent) == Len(ann.segmentation) = 0 /\ sent = ""

\* the mask of one (sentence, annotation) pair
AnnotationMask(ann, sent) ==
    IF Len(ann.segmentation) = 0
    THEN SumAxis2(<<[p \in 1..MaskPixels |-> 0]>>)
    ELSE SumAxis2([k \in 1..Len(ann.segmentation) |-> ann.segmentation[k].map])

\* rle[i]["counts"] = rle[i]["counts"].encode(), on the stored annotation
EncodeCounts(ann) ==
    IF ann.polygon \/ Len(ann.segmentation) = 0 THEN ann
    ELSE [ann EXCEPT !.segmentation =
              [k \in 1..Len(ann.segmentation) |->
                  [ann.segmentation[k] EXCEPT !.counts = "bytes"]]]

\* ValDataset.__getitem__ on a refer_seg dataset
ValReferGetItem(idx) ==
    /\ ds.kind = "ValDataset" /\ ds.data_type = "refer_seg"
    /\ idx < Len(ds.images)
    /\ LET image_id == ds.images[idx + 1]
           refs == ds.img2refs[image_id]
           sampled == RefSentences(refs)
           conversations ==
               [k \in 1..Len(sampled) |->
                   GetPrompt(<<DEFAULT_IMAGE_TOKEN, "q">>, <<"a">>)]
           masks == [k \in 1..Len(sampled) |->
                        AnnotationMask(ds.annotations[sampled[k].ann_id],
                                       sampled[k].sent)]
           fails == {k \in 1..Len(sampled) :
                        AnnotationFails(ds.annotations[sampled[k].ann_id],
                                        sampled[k].sent)}
           \* the annotations decoded before the first failing one
           decoded == {sampled[k].ann_id : k \in
                          {k \in 1..Len(sampled) : \A j \in fails : k < j}}
       IN IF Len(refs) = 0
          THEN /\ raised' = "ValueError"
               /\ UNCHANGED <<ds, sample>>
          ELSE /\ ds' = [ds EXCEPT !.annotations =
                            [a \in DOMAIN ds.annotations |->
                                IF a \in decoded THEN EncodeCounts(ds.annotations[a])
                                ELSE ds.annotations[a]]]
               /\ IF fails # {}
                  THEN raised' = "IndexError" /\ sample' = sample
                  ELSE /\ raised' = ""
                       /\ sample' = <<image_id, "image", "image_clip", conversations,
                                      masks, "labels", "resize", "None", "None", TRUE>>
    /\ UNCHANGED <<fs, hres>>
    /\ UNCHANGED collateVars

\* ValDataset.__getitem__ on a reason_seg dataset: get_mask_from_json gives
\* the mask and the sentences, of which the first is kept
ValReasonGetItem(idx) ==
    /\ ds.kind = "ValDataset" /\ ds.data_type = "reason_seg"
    /\ idx < Len(ds.images)
    /\ LET image_path == ds.images[idx + 1]
           sampled_sents == <<ds.json[image_path].sents[1]>>
           conversations ==
               [k \in 1..Len(sampled_sents) |->
                   GetPrompt(<<DEFAULT_IMAGE_TOKEN, "q">>, <<"a">>)]
           masks == <<ds.json[image_path].mask>>
       IN sample' = <<image_path, "image", "image_clip", conversations, masks,
                      "labels", "resize", "None", "None", TRUE>>
    /\ raised' = ""
    /\ UNCHANGED <<fs, ds, hres>>
    /\ UNCHANGED collateVars

\* a data loader hands the sample to collate_fn as a batch of one
CollateSample ==
    /\ sample # <<>>
    /\ batch' = <<sample>>
    /\ out' = collate_fn(<<sample>>, tokenizer, conv_type, use_mm_start_end)
    /\ UNCHANGED <<tokenizer, conv_type, use_mm_start_end, again>>
    /\ UNCHANGED dataVars

-----------------------------------------------------------------------------
(* The sample specification: a constructed dataset, queried and collated *)

MapOf(on) == [p \in 1..MaskPixels |-> IF p \in on THEN 1 ELSE 0]

\* the annotation store of the refer_seg data: a polygon, two overlapping
\* polygons, a run-length segmentation with text counts, an empty one
Annotations ==
    <<[polygon |-> TRUE, segmentation |-> <<[map |-> MapOf({1}), counts |-> "none"]>>],
      [polygon |-> TRUE,
       segmentation |-> <<[map |-> MapOf({1}), counts |-> "none"],
                          [map |-> MapOf(1..MaskPixels), counts |-> "none"]>>],
      [polygon |-> FALSE, segmentation |-> <<[map |-> MapOf({MaskPixels}), counts |-> "str"]>>],
      [polygon |-> FALSE, segmentation |-> <<>>]>>

Refs ==
    [ann_id : 1..Len(Annotations), sentences : {<<"q">>, <<"q", "q">>, <<"">>}]

\* ValDataset.__init__ with a three-part val_dataset: img2refs groups the
\* refs of the split by image
ReferInit(refs1, refs2) ==
    [kind |-> "ValDataset", data_type |-> "refer_seg",
     images |-> <<1, 2>>,
     annotations |-> Annotations,
     img2refs |-> <<refs1, refs2>>]

\* ValDataset.__init__ with a two-part val_dataset: the globbed images, each
\* with its json
ReasonInit(json) ==
    [kind |-> "ValDataset", data_type |-> "reason_seg",
     images |-> [i \in 1..Len(json) |-> i],
     json |-> json]

JsonFiles ==
    [mask : {MapOf({}), MapOf({1})}, sents : {<<"q">>, <<"q", "q">>},
     is_sentence : BOOLEAN]

InitSamples ==
    /\ \/ /\ fs \in SeqsUpTo(MaskFiles, MaxSlices)
          /\ \E kind \in TumorKinds, pos \in BOOLEAN, merging \in BOOLEAN :
                ds = TumorInit(kind, fs, pos, merging)
       \/ /\ fs = <<>>
          /\ \E refs1 \in NonEmptySeqsUpTo(Refs, MaxRefs) :
                ds = ReferInit(refs1, <<[ann_id |-> 1, sentences |-> <<"q">>]>>)
       \/ /\ fs = <<>>
          /\ \E json \in NonEmptySeqsUpTo(JsonFiles, MaxRefs) : ds = ReasonInit(json)
    /\ sample = <<>> /\ raised = "" /\ hres = NoDraw
    /\ batch = <<>> /\ tokenizer = [pad_token_id |-> 0, model_max_length |-> LongModelLen]
    /\ conv_type = "llava_v1" /\ use_mm_start_end = TRUE /\ out = NotCalled
    /\ again = FALSE

NextSamples ==
    \/ \E idx \in 0..MaxIdx :
          \/ TumorGetItem(idx)
          \/ ValTumorGetItem(idx)
          \/ ValReferGetItem(idx)
          \/ ValReasonGetItem(idx)
    \/ CollateSample

SpecSamples == InitSamples /\ [][NextSamples]_vars

\* C7: in every sample returned by ValDataset, TumorDataset and
\* ValTumorDataset the stacked masks have one leading entry per conversation.
C7_MasksMatchConversations ==
    sample # <<>> => Len(sample[5]) = Len(sample[4])

\* C8: every returned sample has the 11 fields collate_fn destructures, and
\* collating a batch of it raises no destructuring failure.
C8_UniformSampleShape ==
    /\ sample # <<>> => Len(sample) = SampleFields
    /\ out.status # "ValueError"

\* the pixelwise logical OR of the binary maps a segmentation decodes to
OrMaps(segmentation) ==
    [p \in 1..MaskPixels |->
        IF \E j \in 1..Len(segmentation) : segmentation[j].map[p] = 1 THEN 1 ELSE 0]

\* C11: in a sample of a refer_seg ValDataset the mask of every expression is
\* the pixelwise logical OR of the sub-masks its annotation decodes to, so
\* every pixel is 0 or 1, also where sub-masks overlap.
C11_MaskUnion ==
    (ds.kind = "ValDataset" /\ ds.data_type = "refer_seg" /\ sample # <<>>) =>
        LET sampled == RefSentences(ds.img2refs[sample[1]])
        IN \A k \in 1..Len(sampled) :
              /\ sample[5][k] = OrMaps(ds.annotations[sampled[k].ann_id].segmentation)
              /\ \A p \in 1..MaskPixels : sample[5][k][p] \in {0, 1}

ValKinds == {"ValDataset", "ValTumorDataset"}

\* C12: on ValDataset and ValTumorDataset a call of __getitem__ that returns
\* the sample of the index the previous sample came from (the same image or
\* slice) returns the same conversations and the same masks.
C12_Deterministic ==
    [][(/\ ds.kind \in ValKinds
        /\ sample # <<>> /\ sample' # <<>>
        /\ sample'[1] = sample[1])
          => (sample'[4] = sample[4] /\ sample'[5] = sample[5])]_vars

\* C13: no __getitem__ call changes the dataset object (annotation store,
\* image/expression index, slice and class lists) or the backing files.
C13_ReadOnlyIndices == [][ds' = ds /\ fs' = fs]_vars

=============================================================================
